---- MODULE Spec2Model ----
(***************************************************************************)
(* Stock-Analysis: the forecast ensemble of the Flask backend              *)
(* (src/backend) and of the FastAPI prediction service                     *)
(* (src/prediction-service), with the HTTP endpoints in front of them.     *)
(*                                                                         *)
(* Numbers.  Prices are integers in mills (1/1000 of a currency unit).     *)
(* Predictor outputs are integers in tenths of a mill, so that the trend   *)
(* fallback last + i * (last - first) / 10 is exact.  The ensemble mean    *)
(* of three outputs is kept as their sum (unit: 1/30000).  round(x, 2) is  *)
(* round-half-even to cents on these exact rationals.  The standard        *)
(* deviation and the square root of the confidence intervals are computed  *)
(* in fixed point (floor), the only approximations of the model.           *)
(*                                                                         *)
(* Dates are day numbers; day 0 is Monday 2024-01-01.                      *)
(***************************************************************************)
EXTENDS Integers, Sequences, FiniteSets, TLC

\* ------------------------------------------------------------ bounds
\* Largest small horizon a request asks for (besides the boundary values).
MaxDays == 3
\* History lengths run from MinHistory - 1 to MinHistory + ExtraLen.
ExtraLen == 0

\* ------------------------------------------------- program constants
MinHistory == 50
DaysLower == 1
DaysUpper == 365
TrendWindow == 10
LrWindow == 20
MetricsWindow == 30
Z95 == 196
DampPercent == 10
SaturdayNo == 5

\* ------------------------------------------------------------ helpers
Abs(x) == IF x < 0 THEN -x ELSE x
Max(a, b) == IF a > b THEN a ELSE b
Min(a, b) == IF a < b THEN a ELSE b

\* s[lo] + ... + s[hi]
RECURSIVE SumRange(_, _, _)
SumRange(s, lo, hi) ==
    IF lo > hi THEN 0
    ELSE IF lo = hi THEN s[lo]
    ELSE LET mid == (lo + hi) \div 2
         IN  SumRange(s, lo, mid) + SumRange(s, mid + 1, hi)

SumSeq(s) == SumRange(s, 1, Len(s))

\* The last k entries of s (Python s[-k:]).
LastK(s, k) == IF Len(s) <= k THEN s ELSE SubSeq(s, Len(s) - k + 1, Len(s))

\* Python round(): num/den (den > 0) to the nearest integer, ties to even.
RoundHalfEven(num, den) ==
    LET q == num \div den
        r == num % den
    IN  IF 2 * r < den THEN q
        ELSE IF 2 * r > den THEN q + 1
        ELSE IF q % 2 = 0 THEN q ELSE q + 1

\* floor(a * b / c) for c > 0 without forming a * b.
MulDiv(a, b, c) == (a \div c) * b + ((a % c) * b) \div c

\* floor(sqrt(n)) by bisection on lo..hi.
RECURSIVE Bisect(_, _, _)
Bisect(n, lo, hi) ==
    IF lo >= hi THEN lo
    ELSE LET mid == (lo + hi + 1) \div 2
         IN  IF mid * mid <= n THEN Bisect(n, mid, hi) ELSE Bisect(n, lo, mid - 1)

ISqrt(n) == Bisect(n, 0, Min(n, 46340))

\* ------------------------------------------------------------ calendar
\* datetime.weekday(): 0 = Monday ... 6 = Sunday.
Weekday(d) == d % 7

MonthLens(y) == IF y = 2024 THEN <<31, 29, 31, 30, 31, 30, 31, 31, 30, 31, 30, 31>>
                ELSE <<31, 28, 31, 30, 31, 30, 31, 31, 30, 31, 30, 31>>

YearLen(y) == IF y = 2024 THEN 366 ELSE 365

RECURSIVE MonthDay(_, _, _)
MonthDay(y, m, rest) ==
    IF rest < MonthLens(y)[m] THEN <<y, m, rest + 1>>
    ELSE MonthDay(y, m + 1, rest - MonthLens(y)[m])

\* date.strftime('%Y-%m-%d'), as the triple <<year, month, day>>.
Strftime(d) ==
    IF d < YearLen(2024) THEN MonthDay(2024, 1, d)
    ELSE MonthDay(2025, 1, d - YearLen(2024))

\* The day number a formatted date stands for (the reader's side).
ParseDate(s) ==
    (IF s[1] = 2024 THEN 0 ELSE YearLen(2024))
    + SumRange(MonthLens(s[1]), 1, s[2] - 1) + s[3] - 1

\* Order of formatted dates (lexicographic, as for 'YYYY-MM-DD' strings).
DateLess(s, t) ==
    \/ s[1] < t[1]
    \/ s[1] = t[1] /\ s[2] < t[2]
    \/ s[1] = t[1] /\ s[2] = t[2] /\ s[3] < t[3]

\* ------------------------------------------------- the price history
\* ticker.history(period="2y"): the Close column is n prices, a up to the
\* tenth from last, then b, and c on the last day; the index ends on last.
Series(n, a, b, c) ==
    [k \in 1..n |-> IF k <= n - TrendWindow THEN a ELSE IF k < n THEN b ELSE c]

LastPrice(prices) == prices[Len(prices)]

\* ---------------------------------------------------- the predictors
NSteps(days) == Max(days, 0)

\* The trend taken over the nine steps between the ten recent prices.
SimpleTrendPrediction_PerInterval(prices, days) ==
    LET recent == LastK(prices, TrendWindow)
    IN  [i \in 1..NSteps(days) |->
            10 * LastPrice(prices)
            + RoundHalfEven(10 * (recent[Len(recent)] - recent[1]) * i,
                            Len(recent) - 1)]

\* _simple_trend_prediction: recent = prices[-10:],
\* trend = (recent[-1] - recent[0]) / len(recent), pred_i = prices[-1] + trend * i.
SimpleTrendPrediction(prices, days) ==
    LET recent == LastK(prices, TrendWindow)
    IN  [i \in 1..NSteps(days) |->
            10 * LastPrice(prices)
            + RoundHalfEven(10 * (recent[Len(recent)] - recent[1]) * i, Len(recent))]

\* fitted_model.forecast(steps=days).tolist() of AutoReg and of ARIMA: what the
\* library returns is not decided by this code; a fit that succeeds is taken
\* to continue the series with some slope, one value per step.
ModelForecast(prices, days, slope) ==
    [i \in 1..NSteps(days) |-> 10 * LastPrice(prices) + slope * i]

\* np.mean(last_prices[-k:])
MovingAverage(window, k) ==
    LET from == Max(1, Len(window) - k + 1)
    IN  SumRange(window, from, Len(window)) \div (Len(window) - from + 1)

\* model.predict([[ma_5, ma_10, ma_20, trend]]) of the fitted LinearRegression:
\* the coefficients are the library's; coef is one fit.
LrModelPredict(coef, ma5, ma10, ma20, trend) ==
    coef.w5 * ma5 + coef.w10 * ma10 + coef.w20 * ma20 + coef.wt * trend + coef.b

\* last_prices.append(pred); if len(last_prices) > 20: last_prices.pop(0)
PushWindow(window, pred) ==
    LET w == Append(window, pred)
    IN  IF Len(w) > LrWindow THEN Tail(w) ELSE w

\* One iteration of the forecasting loop of _lr_predict /
\* _predict_with_linear_regression, on the loop's variables.
LrIteration(coef, n, st) ==
    LET pred == LrModelPredict(coef, MovingAverage(st.last_prices, 5),
                               MovingAverage(st.last_prices, 10),
                               MovingAverage(st.last_prices, 20), n + st.i)
    IN  [last_prices |-> PushWindow(st.last_prices, pred),
         predictions |-> Append(st.predictions, pred),
         i |-> st.i + 1]

\* k iterations in a row (split in halves, and st read first, to keep the
\* evaluation shallow).
RECURSIVE LrLoop(_, _, _, _)
LrLoop(coef, n, st, k) ==
    IF k <= 0 \/ st.i < 0 THEN st
    ELSE IF k = 1 THEN LrIteration(coef, n, st)
    ELSE LrLoop(coef, n, LrLoop(coef, n, st, k \div 2), k - (k \div 2))

\* for i in range(days), from last_prices = prices[-20:].tolist()
LrPredict(prices, days, coef) ==
    LET last_prices == [k \in 1..Len(LastK(prices, LrWindow)) |->
                            10 * LastK(prices, LrWindow)[k]]
    IN  LrLoop(coef, Len(prices),
               [last_prices |-> last_prices, predictions |-> <<>>, i |-> 0],
               days).predictions

\* --------------------------------------------------------- the ensemble
\* for i in range(days): np.mean([ar[i], lr[i], arima[i]]).  The mean is kept
\* as the sum of the three (thirds of a tenth of a mill).
EnsembleRaises(ar, lr, arima, days) ==
    \E i \in 1..NSteps(days) : i > Len(ar) \/ i > Len(lr) \/ i > Len(arima)

Ensemble(ar, lr, arima, days) ==
    [i \in 1..NSteps(days) |-> ar[i] + lr[i] + arima[i]]

\* ------------------------------------------------ confidence intervals
\* returns = np.diff(p) / p[:-1], per mille.
Returns(prices) ==
    [t \in 1..(Len(prices) - 1) |->
        ((prices[t + 1] - prices[t]) * 1000) \div prices[t]]

\* np.std(x): the population standard deviation.
StdDev(x) ==
    LET n == Len(x)
        mean == SumSeq(x) \div n
        sq == [t \in 1..n |-> (x[t] - mean) * (x[t] - mean)]
    IN  ISqrt(SumSeq(sq) \div n)

Volatility(prices) == StdDev(Returns(prices))

\* 1.96 * volatility * np.sqrt(i + 1) * scale, in 1/10000, for the 0-indexed
\* step i; scalePct is 100 in the backend and DampPercent in the service.
IntervalFactor(vol, i, scalePct) ==
    LET root == ISqrt((i + 1) * 1000000)
        z == (((vol * root) \div 100) * Z95) \div 100
    IN  (z * scalePct) \div 100

\* _calculate_confidence_intervals: [pred - 1.96 u, pred + 1.96 u] with
\* u = volatility * sqrt(i + 1) * pred (* 0.1), in the unit of predictions.
CalculateConfidenceIntervals(prices, predictions, scalePct) ==
    LET vol == Volatility(prices)
    IN  [k \in 1..Len(predictions) |->
            LET u == MulDiv(predictions[k], IntervalFactor(vol, k - 1, scalePct), 10000)
            IN  <<predictions[k] - u, predictions[k] + u>>]

\* ------------------------------------------------------- future dates
\* Backend: last_date + i days, moved past a weekend.
RECURSIVE SkipWeekend(_)
SkipWeekend(d) == IF Weekday(d) > SaturdayNo - 1 THEN SkipWeekend(d + 1) ELSE d

\* Weekend days left out instead of moved to the next Monday.
BackendFutureDates_DropWeekends(last_date, days) ==
    LET kept == {i \in 1..NSteps(days) : Weekday(last_date + i) < SaturdayNo}
    IN  [j \in 1..Cardinality(kept) |->
            Strftime(last_date + CHOOSE i \in kept :
                                     Cardinality({e \in kept : e <= i}) = j)]

BackendFutureDates(last_date, days) ==
    [i \in 1..NSteps(days) |-> Strftime(SkipWeekend(last_date + i))]

\* Service: _generate_business_dates, then strftime in the response loop.
\* One test of the while condition and, if it holds, one run of the body.
BusinessIteration(st, days) ==
    IF Len(st.business_dates) < days
    THEN [business_dates |->
              IF Weekday(st.current_date) < SaturdayNo
              THEN Append(st.business_dates, st.current_date)
              ELSE st.business_dates,
          current_date |-> st.current_date + 1]
    ELSE st

\* k iterations in a row (split in halves, and st read first, to keep the
\* evaluation shallow).
RECURSIVE BusinessLoop(_, _, _)
BusinessLoop(st, days, k) ==
    IF k <= 0 \/ st.current_date < 0 THEN st
    ELSE IF k = 1 THEN BusinessIteration(st, days)
    ELSE BusinessLoop(BusinessLoop(st, days, k \div 2), days, k - (k \div 2))

\* The walk started on start_date itself instead of the day after it.
GenerateBusinessDates_FromStart(start_date, days) ==
    BusinessLoop([business_dates |-> <<>>, current_date |-> start_date],
                 days, 2 * NSteps(days) + 2).business_dates

\* The while loop ends within 2 * days + 2 iterations: of any seven days in
\* a row five are weekdays.
GenerateBusinessDates(start_date, days) ==
    BusinessLoop([business_dates |-> <<>>, current_date |-> start_date + 1],
                 days, 2 * NSteps(days) + 2).business_dates

ServiceFutureDates(last_date, days) ==
    LET bd == GenerateBusinessDates(last_date, days)
    IN  [i \in 1..Min(Len(bd), NSteps(days)) |-> Strftime(bd[i])]

\* ---------------------------------------------------- accuracy metrics
\* The comparison of the trend made with >= instead of >.
CalculateAccuracyMetrics_UpwardOnEqual(prices) ==
    LET recent == LastK(prices, MetricsWindow)
        mean == SumSeq(recent) \div Len(recent)
    IN  [recent_volatility_percent |->
             IF mean = 0 THEN 0 ELSE RoundHalfEven(StdDev(recent) * 10000, mean),
         trend_direction |->
             IF LastPrice(prices) >= prices[Len(prices) - MetricsWindow + 1]
             THEN "upward" ELSE "downward",
         data_points_used |-> Len(prices)]

\* _calculate_accuracy_metrics
CalculateAccuracyMetrics(prices) ==
    LET recent == LastK(prices, MetricsWindow)
        mean == SumSeq(recent) \div Len(recent)
    IN  [recent_volatility_percent |->
             IF mean = 0 THEN 0 ELSE RoundHalfEven(StdDev(recent) * 10000, mean),
         trend_direction |->
             IF LastPrice(prices) > prices[Len(prices) - MetricsWindow + 1]
             THEN "upward" ELSE "downward",
         data_points_used |-> Len(prices)]

\* ------------------------------------------------------- the response
\* round(x, 2) of a value in thirds of a tenth of a mill, in cents.
RoundCents(x) == RoundHalfEven(x, 300)

\* The difference taken the other way round.
ChangeFromCurrent_Swapped(pred_price, current_price) ==
    RoundHalfEven(current_price - pred_price * 10, 10)

\* round(pred_price - current_price, 2): pred in cents, current in mills.
ChangeFromCurrent(pred_price, current_price) ==
    RoundHalfEven(pred_price * 10 - current_price, 10)

\* round(((pred_price - current_price) / current_price) * 100, 2), in 1/100 %.
ChangePercent(pred_price, current_price) ==
    RoundHalfEven((pred_price * 10 - current_price) * 10000, current_price)

\* The loop over future_dates that builds predictions_data.
PredictionsData(future_dates, ensemble, intervals, current_price) ==
    [i \in 1..Min(Len(future_dates), Len(ensemble)) |->
        LET pred_price == RoundCents(ensemble[i])
        IN  [date |-> future_dates[i],
             predicted_price |-> pred_price,
             lower_bound |-> RoundCents(intervals[i][1]),
             upper_bound |-> RoundCents(intervals[i][2]),
             change_from_current |-> ChangeFromCurrent(pred_price, current_price),
             change_percent |-> ChangePercent(pred_price, current_price)]]

\* ------------------------------------------------------- the requests
Req == {1, 2}
Predictors == 1..3            \* 1 autoregression, 2 linear regression, 3 ARIMA
PredictorName(k) == IF k = 1 THEN "autoregression"
                    ELSE IF k = 2 THEN "linear_regression" ELSE "arima"

\* symbol.upper()
Upper(sym) == IF sym = "aapl" THEN "AAPL" ELSE IF sym = "msft" THEN "MSFT" ELSE sym

\* What a run draws its inputs from: the days parameters, the symbols each
\* client asks for, the histories the data provider returns and the outcomes
\* of the library fits.
DaysParams == ((0 - 1)..MaxDays) \cup {DaysUpper, DaysUpper + 1}

History(n, shape, last_date) ==
    [close |-> Series(n, shape[1], shape[2], shape[3]), last_date |-> last_date]

NoHistory == [close |-> <<>>, last_date |-> 0]

\* A flat series ending on each day of the week, at every length tried; and
\* at the minimum length a spike, a steep fall, a rise, a zero last price and
\* a last price above all the others.
FlatShape == <<1005, 1005, 1005>>
OtherShapes == {<<1005, 5000, 1005>>, <<5000, 5000, 1005>>, <<5000, 1005, 5000>>,
                <<1005, 1005, 0>>, <<1005, 1005, 1105>>}
Friday == SaturdayNo - 1

Histories ==
    {History(n, FlatShape, 0) : n \in (MinHistory - 1)..(MinHistory + ExtraLen)}
    \cup {History(MinHistory, FlatShape, d) : d \in 0..6}
    \cup {History(MinHistory, sh, Friday) : sh \in OtherShapes}

LibrarySlopes == [k \in {1, 3} |-> IF k = 1 THEN {800} ELSE {0 - 1500}]
LibraryCoefs == {[w5 |-> 1, w10 |-> 0, w20 |-> 0, wt |-> 1, b |-> 0]}

FullInputs ==
    [days |-> DaysParams,
     symbols |-> [r \in Req |-> {"aapl"}],
     hists |-> Histories,
     slopes |-> LibrarySlopes,
     coefs |-> LibraryCoefs]

ConcInputs ==
    [days |-> {2},
     symbols |-> [r \in Req |-> IF r = 1 THEN {"aapl"} ELSE {"msft"}],
     hists |-> {History(MinHistory, <<1005, 5000, 1005>>, Friday)},
     slopes |-> LibrarySlopes,
     coefs |-> LibraryCoefs]

VARIABLES
    pc,         \* where each request is
    endpoint,   \* "flask" (backend/app.py) or "fastapi" (prediction-service/main.py)
    symbol,     \* the symbol predict_prices was called with
    days,       \* the days parameter of the request
    hist,       \* the history fetched by predict_prices
    task,       \* service: the state of each predictor task of the request
    future,     \* the output each predictor produced
    firstDone,  \* service: the predictor task that finished first (0: none yet)
    fellBack,   \* the predictors whose fit raised and that used the fallback
    invoked,    \* the prediction methods called so far
    preds,      \* <<ar_predictions, lr_predictions, arima_predictions>>
    result,     \* what predict_prices returned or raised
    status,     \* the HTTP status answered (0: none yet)
    scaler      \* self.scaler of the PredictionService instance of each app

vars == <<pc, endpoint, symbol, days, hist, task, future, firstDone, fellBack,
          invoked, preds, result, status, scaler>>

NoResult == [kind |-> "none"]

Init ==
    /\ pc = [r \in Req |-> "idle"]
    /\ endpoint = [r \in Req |-> "none"]
    /\ symbol = [r \in Req |-> ""]
    /\ days = [r \in Req |-> 0]
    /\ hist = [r \in Req |-> NoHistory]
    /\ task = [r \in Req |-> [k \in Predictors |-> "none"]]
    /\ future = [r \in Req |-> [k \in Predictors |-> <<>>]]
    /\ firstDone = [r \in Req |-> 0]
    /\ fellBack = [r \in Req |-> {}]
    /\ invoked = [r \in Req |-> {}]
    /\ preds = [r \in Req |-> <<>>]
    /\ result = [r \in Req |-> NoResult]
    /\ status = [r \in Req |-> 0]
    /\ scaler = [e \in {"flask", "fastapi"} |-> "MinMaxScaler()"]

\* -------------------------------------------------- predict_prices, pure
\* except Exception as e: raise Exception(f"... {symbol}: {str(e)}")
\* The wrapped error is a plain Exception whose text holds the symbol and
\* the text of the original error.
WrapError(ep, sym, original) ==
    [kind |-> "error",
     type |-> "Exception",
     prefix |-> IF ep = "flask" THEN "Error predicting prices for"
                ELSE "Prediction failed for",
     symbol |-> sym,
     text |-> original.text]

InsufficientData(sym) ==
    [type |-> "ValueError", text |-> <<"Insufficient historical data for", sym>>]
ZeroDivision == [type |-> "ZeroDivisionError", text |-> <<"float division by zero">>]
IndexOutOfRange == [type |-> "IndexError", text |-> <<"list index out of range">>]

\* A fallback that repeats the last price.
OnFailure_Flat(prices, d) == ModelForecast(prices, d, 0)

\* The except branch of a predictor: the trend fallback.
OnFailure(prices, d) == SimpleTrendPrediction(prices, d)

\* The window of the regression loop taken as the prices themselves, so that
\* its pop(0) evicts the oldest price.
PricesAfterPredictor_WindowAliased(k, prices, d) ==
    IF k = 2 /\ d >= 1 THEN Tail(prices) ELSE prices

\* The prices array once predictor k (its fit or its fallback) has run.  The
\* predictors only read it: AutoReg and ARIMA are handed it, the fallback
\* slices it, and the regression loop appends to and pops from
\* last_prices = prices[-20:].tolist(), a list of its own.
PricesAfterPredictor(k, prices, d) == prices

\* The output of predictor k on a fit that succeeds.
FitOutput(k, prices, d, fit) ==
    IF k = 2 THEN LrPredict(prices, d, fit) ELSE ModelForecast(prices, d, fit)

Fits(k, U) == IF k = 2 THEN U.coefs ELSE U.slopes[k]

ScalePct(ep) == IF ep = "flask" THEN 100 ELSE DampPercent

FutureDates(ep, last_date, d) ==
    IF ep = "flask" THEN BackendFutureDates(last_date, d)
    ELSE ServiceFutureDates(last_date, d)

PeriodLabel(ep, d) == IF ep = "flask" THEN <<d, "days">> ELSE <<d, "business days">>

\* predict_prices from the ensemble loop to the return statement.
AssembleResult(ep, sym, d, h, p) ==
    LET prices == h.close
        current_price == LastPrice(prices)
        ens == Ensemble(p[1], p[2], p[3], d)
        intervals == CalculateConfidenceIntervals(prices, ens, ScalePct(ep))
        future_dates == FutureDates(ep, h.last_date, d)
    IN  IF EnsembleRaises(p[1], p[2], p[3], d)
        THEN WrapError(ep, sym, IndexOutOfRange)
        ELSE IF current_price = 0 /\ Min(Len(future_dates), Len(ens)) > 0
        THEN WrapError(ep, sym, ZeroDivision)
        ELSE [kind |-> "response",
              symbol |-> sym,
              current_price |-> RoundHalfEven(current_price, 10),
              prediction_period |-> PeriodLabel(ep, d),
              predictions |-> PredictionsData(future_dates, ens, intervals,
                                              current_price),
              accuracy_metrics |-> CalculateAccuracyMetrics(prices)]

\* ------------------------------------------------------------ actions
\* Flask GET /api/stock/<symbol>/predict: days = int(request.args.get('days', 30))
\* and the call of predict_prices(symbol.upper(), days).
FlaskRequest(r, U) ==
    /\ pc[r] = "idle"
    /\ \E d \in U.days, sym \in U.symbols[r] :
        /\ days' = [days EXCEPT ![r] = d]
        /\ symbol' = [symbol EXCEPT ![r] = Upper(sym)]
    /\ endpoint' = [endpoint EXCEPT ![r] = "flask"]
    /\ pc' = [pc EXCEPT ![r] = "fetch"]
    /\ UNCHANGED <<hist, task, future, firstDone, fellBack, invoked, preds,
                   result, status, scaler>>

\* FastAPI GET /predict/{symbol}: days = Query(ge=1, le=365); a request the
\* validation refuses is answered 422 and the handler never runs.
FastApiRequest(r, U) ==
    /\ pc[r] = "idle"
    /\ endpoint' = [endpoint EXCEPT ![r] = "fastapi"]
    /\ \E d \in U.days, sym \in U.symbols[r] :
        /\ days' = [days EXCEPT ![r] = d]
        /\ IF DaysLower <= d /\ d <= DaysUpper
           THEN /\ symbol' = [symbol EXCEPT ![r] = Upper(sym)]
                /\ pc' = [pc EXCEPT ![r] = "fetch"]
                /\ status' = status
           ELSE /\ symbol' = symbol
                /\ pc' = [pc EXCEPT ![r] = "responded"]
                /\ status' = [status EXCEPT ![r] = 422]
    /\ UNCHANGED <<hist, task, future, firstDone, fellBack, invoked, preds,
                   result, scaler>>

\* A check that only refuses an empty history.
HistoryTooShort_OnlyEmpty(h) == Len(h.close) = 0

\* if len(hist) < 50
HistoryTooShort(h) == Len(h.close) < MinHistory

\* predict_prices up to the predictors: the history is fetched and its
\* length checked; a short history raises, and the except clause wraps it.
Fetch(r, U) ==
    /\ pc[r] = "fetch"
    /\ \E h \in U.hists :
        /\ hist' = [hist EXCEPT ![r] = h]
        /\ IF HistoryTooShort(h)
           THEN /\ result' = [result EXCEPT ![r] =
                        WrapError(endpoint[r], symbol[r], InsufficientData(symbol[r]))]
                /\ pc' = [pc EXCEPT ![r] = "raised"]
                /\ task' = task
           ELSE /\ result' = result
                /\ pc' = [pc EXCEPT ![r] = "predict"]
                /\ task' = [task EXCEPT ![r] =
                        IF endpoint[r] = "fastapi"
                        THEN [k \in Predictors |-> "created"] ELSE @]
    /\ UNCHANGED <<endpoint, symbol, days, future, firstDone, fellBack, invoked,
                   preds, status, scaler>>

\* Backend: the next of the three _predict_with_* calls, in program order.
\* The fit either raises, and the except branch returns the fallback, or
\* returns its forecast.
BackendPredictor(r, U) ==
    /\ pc[r] = "predict"
    /\ endpoint[r] = "flask"
    /\ LET k == Len(preds[r]) + 1
       IN  /\ \/ /\ preds' = [preds EXCEPT ![r] =
                        Append(@, OnFailure(hist[r].close, days[r]))]
                 /\ fellBack' = [fellBack EXCEPT ![r] = @ \cup {k}]
                 /\ invoked' = [invoked EXCEPT ![r] =
                        @ \cup {PredictorName(k), "simple_trend"}]
              \/ /\ \E fit \in Fits(k, U) :
                        preds' = [preds EXCEPT ![r] =
                            Append(@, FitOutput(k, hist[r].close, days[r], fit))]
                 /\ fellBack' = fellBack
                 /\ invoked' = [invoked EXCEPT ![r] = @ \cup {PredictorName(k)}]
           /\ hist' = [hist EXCEPT ![r].close = PricesAfterPredictor(k, @, days[r])]
           /\ pc' = [pc EXCEPT ![r] = IF k = 3 THEN "ensemble" ELSE "predict"]
    /\ UNCHANGED <<endpoint, symbol, days, task, future, firstDone, result,
                   status, scaler>>

\* Service: asyncio.gather runs the three coroutines as tasks, started in the
\* order given; each hands its fit to the executor (run_in_executor).
Submit(r) ==
    /\ pc[r] = "predict"
    /\ endpoint[r] = "fastapi"
    /\ \E k \in Predictors :
        /\ task[r][k] = "created"
        /\ \A j \in 1..(k - 1) : task[r][j] # "created"
        /\ task' = [task EXCEPT ![r][k] = "submitted"]
        /\ invoked' = [invoked EXCEPT ![r] = @ \cup {PredictorName(k)}]
    /\ UNCHANGED <<pc, endpoint, symbol, days, hist, future, firstDone, fellBack,
                   preds, result, status, scaler>>

\* Service: a worker thread finishes _ar_predict, _lr_predict or
\* _arima_predict, in any order; a fit that raises returns the fallback.
WorkerFinish(r, U) ==
    /\ pc[r] = "predict"
    /\ endpoint[r] = "fastapi"
    /\ \E k \in Predictors :
        /\ task[r][k] = "submitted"
        /\ \/ /\ future' = [future EXCEPT ![r][k] = OnFailure(hist[r].close, days[r])]
              /\ fellBack' = [fellBack EXCEPT ![r] = @ \cup {k}]
              /\ invoked' = [invoked EXCEPT ![r] = @ \cup {"simple_trend"}]
           \/ /\ \E fit \in Fits(k, U) :
                    future' = [future EXCEPT ![r][k] =
                        FitOutput(k, hist[r].close, days[r], fit)]
              /\ fellBack' = fellBack
              /\ invoked' = invoked
        /\ hist' = [hist EXCEPT ![r].close = PricesAfterPredictor(k, @, days[r])]
        /\ task' = [task EXCEPT ![r][k] = "done"]
        /\ firstDone' = [firstDone EXCEPT ![r] = IF @ = 0 THEN k ELSE @]
    /\ UNCHANGED <<pc, endpoint, symbol, days, preds, result, status, scaler>>

\* A wait that ends with the first task to finish.
GatherReady_AnyDone(r) == \E k \in Predictors : task[r][k] = "done"

\* asyncio.gather(*tasks) completes when every task has.
GatherReady(r) == \A k \in Predictors : task[r][k] = "done"

\* Its result lists the tasks' results in the order the tasks were given.
GatherResults(r) == [k \in Predictors |-> future[r][k]]

\* ar_predictions, lr_predictions, arima_predictions = await asyncio.gather(*tasks)
Gather(r) ==
    /\ pc[r] = "predict"
    /\ endpoint[r] = "fastapi"
    /\ GatherReady(r)
    /\ preds' = [preds EXCEPT ![r] = GatherResults(r)]
    /\ pc' = [pc EXCEPT ![r] = "ensemble"]
    /\ UNCHANGED <<endpoint, symbol, days, hist, task, future, firstDone, fellBack,
                   invoked, result, status, scaler>>

\* The symbol kept on the service instance, where the request that entered
\* predict_prices first left it.
LocalsOf_Shared(r) ==
    LET entered == {q \in Req : symbol[q] # ""}
        first == CHOOSE q \in entered : \A p \in entered : q <= p
    IN  [symbol |-> symbol[first], days |-> days[r], hist |-> hist[r],
         preds |-> preds[r]]

\* The locals the rest of predict_prices reads.
LocalsOf(r) == [symbol |-> symbol[r], days |-> days[r], hist |-> hist[r],
                preds |-> preds[r]]

\* predict_prices from the ensemble loop on: it returns the response, or an
\* error of the loop is caught and wrapped by the except clause.
Assemble(r) ==
    /\ pc[r] = "ensemble"
    /\ LET loc == LocalsOf(r)
           res == AssembleResult(endpoint[r], loc.symbol, loc.days, loc.hist, loc.preds)
       IN  /\ result' = [result EXCEPT ![r] = res]
           /\ pc' = [pc EXCEPT ![r] =
                        IF res.kind = "response" THEN "returned" ELSE "raised"]
    /\ UNCHANGED <<endpoint, symbol, days, hist, task, future, firstDone, fellBack,
                   invoked, preds, status, scaler>>

\* Flask: return jsonify(data); except Exception: return {"error": ...}, 400
FlaskStatus(res) == IF res.kind = "response" THEN 200 ELSE 400

\* FastAPI: return predictions; except ValueError: 400; except Exception: 500
FastApiStatus(res) ==
    IF res.kind = "response" THEN 200
    ELSE IF res.type = "ValueError" THEN 400 ELSE 500

\* The endpoint answers the request.
Respond(r) ==
    /\ pc[r] \in {"returned", "raised"}
    /\ status' = [status EXCEPT ![r] =
            IF endpoint[r] = "flask" THEN FlaskStatus(result[r])
            ELSE FastApiStatus(result[r])]
    /\ pc' = [pc EXCEPT ![r] = "responded"]
    /\ UNCHANGED <<endpoint, symbol, days, hist, task, future, firstDone, fellBack,
                   invoked, preds, result, scaler>>

\* ------------------------------------------------------ specifications
BackendStep(r, U) ==
    \/ FlaskRequest(r, U)
    \/ BackendPredictor(r, U)

ServiceStep(r, U) ==
    \/ FastApiRequest(r, U)
    \/ Submit(r)
    \/ WorkerFinish(r, U)
    \/ Gather(r)

CommonStep(r, U) ==
    \/ Fetch(r, U)
    \/ Assemble(r)
    \/ Respond(r)

\* One request, on either endpoint, over the full inputs.
Next == BackendStep(1, FullInputs) \/ ServiceStep(1, FullInputs)
            \/ CommonStep(1, FullInputs)

Spec == Init /\ [][Next]_vars

\* Two requests interleaved on the prediction service.
NextConc == \E r \in Req : ServiceStep(r, ConcInputs) \/ CommonStep(r, ConcInputs)

SpecConc == Init /\ [][NextConc]_vars

\* =============================================================== claims
Answered(r) == result[r].kind # "none"
Returned(r) == result[r].kind = "response"
Raised(r) == result[r].kind = "error"
Fetched(r) == hist[r] # NoHistory
DateOf(r, i) == result[r].predictions[i].date

\* C1: with a history of at least 50 prices and days >= 1, predict_prices
\* returns a response with exactly `days` predictions or raises; it never
\* returns fewer or more, whatever mix of fits and fallbacks produced them.
C1_ExactlyDaysEntries ==
    \A r \in Req :
        (Answered(r) /\ Len(hist[r].close) >= MinHistory /\ days[r] >= 1)
            => \/ Raised(r)
               \/ Returned(r) /\ Len(result[r].predictions) = days[r]

C1_Witness ==
    \E r \in Req :
        /\ Returned(r) /\ days[r] >= 2
        /\ fellBack[r] # {} /\ fellBack[r] # Predictors
        /\ Len(result[r].predictions) = days[r]

\* C2: in every response (both implementations) the dates are all Monday to
\* Friday and strictly increasing from one step to the next.
C2_BusinessDatesIncreasing ==
    \A r \in Req :
        (Returned(r) /\ days[r] >= 1)
            => \A i \in 1..Len(result[r].predictions) :
                /\ Weekday(ParseDate(DateOf(r, i))) < SaturdayNo
                /\ i > 1 => DateLess(DateOf(r, i - 1), DateOf(r, i))

\* C3: a history of fewer than 50 rows makes predict_prices raise the
\* insufficient-data error, with no predictor and no fallback invoked.
C3_ShortHistoryRaisesFirst ==
    \A r \in Req :
        (Fetched(r) /\ Len(hist[r].close) < MinHistory)
            => /\ Raised(r)
               /\ result[r].text[1] = "Insufficient historical data for"
               /\ invoked[r] = {}
               /\ pc[r] \in {"raised", "responded"}

C3_Witness ==
    \E r \in Req :
        /\ Fetched(r) /\ Len(hist[r].close) = MinHistory - 1
        /\ Raised(r) /\ invoked[r] = {}

\* C4: on both endpoints a request that fails for a history under 50 points
\* is answered with a 4xx status, and one that fails for any other internal
\* error with a 5xx status.
C4_StatusByErrorKind ==
    \A r \in Req :
        (status[r] # 0 /\ Raised(r))
            => IF result[r].text[1] = "Insufficient historical data for"
               THEN 400 <= status[r] /\ status[r] < 500
               ELSE 500 <= status[r] /\ status[r] < 600

\* C5: a predictor whose fit raises outputs exactly
\* _simple_trend_prediction(prices, days); the failure does not reach the
\* caller, and predict_prices (on a series of positive prices) still returns
\* a complete response, also when all three fail.
C5_FailureMaskedByFallback ==
    \A r \in Req :
        /\ \A k \in fellBack[r] :
              k <= Len(preds[r])
                  => preds[r][k] = SimpleTrendPrediction(hist[r].close, days[r])
        /\ (fellBack[r] # {} /\ Answered(r) /\ LastPrice(hist[r].close) > 0)
              => /\ Returned(r)
                 /\ Len(result[r].predictions) = NSteps(days[r])

C5_Witness ==
    \E r \in Req :
        /\ fellBack[r] = Predictors /\ Returned(r) /\ days[r] >= 2
        /\ hist[r].close[MinHistory] # hist[r].close[MinHistory - 1]
        /\ \A k \in Predictors :
              preds[r][k] = SimpleTrendPrediction(hist[r].close, days[r])

\* C6: in the service the ensemble step starts only after all three
\* predictor tasks have produced their outputs, and the outputs are bound to
\* ar / lr / arima in task order whichever task finished first.
C6_EnsembleAfterJoin ==
    \A r \in Req :
        (endpoint[r] = "fastapi" /\ pc[r] = "ensemble")
            => \A k \in Predictors :
                   /\ task[r][k] = "done"
                   /\ Len(preds[r]) = 3
                   /\ preds[r][k] = future[r][k]

C6_Witness ==
    \E r \in Req :
        /\ endpoint[r] = "fastapi" /\ pc[r] = "ensemble" /\ days[r] >= 1
        /\ firstDone[r] = 3
        /\ fellBack[r] = {}
        /\ preds[r][1] # preds[r][3]

PredictedPrice(r, i) == result[r].predictions[i].predicted_price
Width(r, i) == result[r].predictions[i].upper_bound - result[r].predictions[i].lower_bound

\* C7: in every response whose point forecasts all have the same sign, the
\* interval width upper_bound - lower_bound of a step is at least that of the
\* step before.
C7_WidthNonDecreasing ==
    \A r \in Req :
        (/\ Returned(r)
         /\ \/ \A i \in 1..Len(result[r].predictions) : PredictedPrice(r, i) > 0
            \/ \A i \in 1..Len(result[r].predictions) : PredictedPrice(r, i) < 0)
            => \A i \in 2..Len(result[r].predictions) : Width(r, i) >= Width(r, i - 1)

\* predict_prices has been called for request r.
Called(r) == pc[r] \in {"fetch", "predict", "ensemble", "returned", "raised"}
             \/ Answered(r)

\* C8: both endpoints refuse a days parameter outside [1, 365] before the
\* call, so predict_prices only ever runs with a horizon in that range.
C8_HorizonValidatedAtBoundary ==
    \A r \in Req :
        /\ Called(r) => (DaysLower <= days[r] /\ days[r] <= DaysUpper)
        /\ (pc[r] = "responded" /\ ~(DaysLower <= days[r] /\ days[r] <= DaysUpper))
               => (400 <= status[r] /\ status[r] < 500 /\ ~Answered(r))

\* C9: for every step of a response, predicted_price - change_from_current
\* is the last price of the series within half a cent (5 mills).
C9_ChangeRoundTrip ==
    \A r \in Req :
        Returned(r)
            => \A i \in 1..Len(result[r].predictions) :
                   Abs((PredictedPrice(r, i)
                        - result[r].predictions[i].change_from_current) * 10
                       - LastPrice(hist[r].close)) <= 5

C9_Witness ==
    \E r \in Req :
        /\ Returned(r) /\ days[r] >= 2
        /\ LastPrice(hist[r].close) % 10 # 0
        /\ result[r].predictions[2].change_from_current # 0

\* What request r returns when it runs alone on its own inputs: the symbol,
\* the days, the history and the outcomes of its three fits.
SoloResult(r) ==
    AssembleResult("fastapi", symbol[r], days[r], hist[r],
        [k \in Predictors |->
            IF k \in fellBack[r]
            THEN SimpleTrendPrediction(hist[r].close, days[r])
            ELSE FitOutput(k, hist[r].close, days[r],
                           CHOOSE fit \in Fits(k, ConcInputs) : TRUE)])

\* C10: two requests interleaved on the one PredictionService instance do
\* not affect one another: each gets what it would get alone on the same
\* input, and no field of the instance is written.
C10_RequestsIndependent ==
    /\ scaler["fastapi"] = "MinMaxScaler()"
    /\ \A r \in Req : Answered(r) => result[r] = SoloResult(r)

C10_Witness ==
    /\ pc[1] = "returned" /\ Returned(1)
    /\ pc[2] = "predict" /\ firstDone[2] # 0
    /\ symbol[1] # symbol[2]
    /\ fellBack[1] # {} /\ fellBack[1] # Predictors

\* The earliest Monday-to-Friday day strictly after day d.
NextBusinessDay(d) ==
    CHOOSE e \in (d + 1)..(d + 3) :
        /\ Weekday(e) < SaturdayNo
        /\ \A f \in (d + 1)..(e - 1) : Weekday(f) >= SaturdayNo

\* C11: a response of the service has exactly `days` dates; the first is the
\* earliest Monday-to-Friday date strictly after the last date of the
\* history, each following one the earliest Monday-to-Friday date strictly
\* after the one before it; and the price of step i is the ensemble value of
\* step i.
C11_BusinessDatesExact ==
    \A r \in Req :
        (Returned(r) /\ endpoint[r] = "fastapi")
            => /\ Len(result[r].predictions) = days[r]
               /\ \A i \in 1..Len(result[r].predictions) :
                     /\ ParseDate(DateOf(r, i)) =
                            NextBusinessDay(IF i = 1 THEN hist[r].last_date
                                            ELSE ParseDate(DateOf(r, i - 1)))
                     /\ PredictedPrice(r, i) =
                            RoundCents(preds[r][1][i] + preds[r][2][i] + preds[r][3][i])

C11_Witness ==
    \E r \in Req :
        /\ Returned(r) /\ endpoint[r] = "fastapi" /\ days[r] = 3
        /\ Weekday(hist[r].last_date) = SaturdayNo - 2
        /\ ParseDate(DateOf(r, 2)) = hist[r].last_date + 4
        /\ fellBack[r] = {}

\* 1.96 * uncertainty of each step of the response of request r: the upper
\* end of the interval less the ensemble value, before any rounding.
ScaledUncertainty(r) ==
    LET ens == Ensemble(preds[r][1], preds[r][2], preds[r][3], days[r])
        intervals == CalculateConfidenceIntervals(hist[r].close, ens,
                                                  ScalePct(endpoint[r]))
    IN  [i \in 1..Len(ens) |-> intervals[i][2] - ens[i]]

\* C12: in every response (a series of at least 50 positive prices, with or
\* without the 0.1 factor) the uncertainty of a step is strictly greater
\* than that of the step before.
C12_UncertaintyStrictlyIncreasing ==
    \A r \in Req :
        (Returned(r) /\ \A t \in 1..Len(hist[r].close) : hist[r].close[t] > 0)
            => LET u == ScaledUncertainty(r)
               IN  \A i \in 2..Len(u) : u[i] > u[i - 1]

\* C13: the output of a predictor that fell back has exactly `days` values,
\* the value of the 1-indexed step i being
\* prices[-1] + i * (prices[-1] - prices[-10]) / 10 (here in tenths of a
\* mill), and the fallback raises nothing: its divisor is 10 on any series of
\* at least 50 points.
C13_TrendFallbackFormula ==
    \A r \in Req :
        \A k \in fellBack[r] :
            (k <= Len(preds[r]) /\ days[r] >= 1)
                => LET prices == hist[r].close
                       n == Len(prices)
                   IN  /\ n >= MinHistory
                       /\ Len(LastK(prices, TrendWindow)) = 10
                       /\ Len(preds[r][k]) = days[r]
                       /\ \A i \in 1..days[r] :
                             preds[r][k][i] =
                                 10 * prices[n] + i * (prices[n] - prices[n - 9])

C13_Witness ==
    \E r \in Req :
        /\ 2 \in fellBack[r] /\ Len(preds[r]) >= 2 /\ days[r] >= 2
        /\ hist[r].close[MinHistory] < hist[r].close[MinHistory - 9]
        /\ preds[r][2][2] < preds[r][2][1]

\* The error predict_prices surfaces for request r on a history that is too
\* short.
InsufficientDataError(r) ==
    WrapError(endpoint[r], symbol[r], InsufficientData(symbol[r]))

\* C14: an error of predict_prices that is not the insufficient-data error
\* (a division by a current price of zero, say) is of a kind the caller can
\* tell from the insufficient-data error, and carries the symbol and the
\* horizon of the request.
C14_GenericErrorCarriesContext ==
    \A r \in Req :
        (Raised(r) /\ result[r].text[1] # "Insufficient historical data for")
            => /\ result[r].type # InsufficientDataError(r).type
               /\ result[r].symbol = symbol[r]
               /\ "days" \in DOMAIN result[r]
               /\ result[r].days = days[r]

Metrics(r) == result[r].accuracy_metrics

\* C15: the trend_direction of a response is "upward" exactly when the last
\* price is greater than prices[-30], the first of the last 30 observations,
\* and "downward" in every other case, equality included; it has no third
\* value; and data_points_used is the length of the series.
C15_TrendDirection ==
    \A r \in Req :
        Returned(r)
            => LET prices == hist[r].close
                   n == Len(prices)
               IN  /\ Metrics(r).trend_direction \in {"upward", "downward"}
                   /\ Metrics(r).trend_direction = "upward"
                          <=> prices[n] > prices[n - 29]
                   /\ Metrics(r).data_points_used = n

C15_Witness ==
    /\ Returned(1) /\ Metrics(1).trend_direction = "upward"
    /\ hist[1].close[MinHistory] > hist[1].close[MinHistory - 29]

C17_BoundsBracketForecast ==
    \A r \in Req :
        (Returned(r) /\ \A t \in 1..Len(hist[r].close) : hist[r].close[t] > 0)
            => \A i \in 1..Len(result[r].predictions) :
                   /\ result[r].predictions[i].lower_bound <= PredictedPrice(r, i)
                   /\ PredictedPrice(r, i) <= result[r].predictions[i].upper_bound

====
